---- MODULE Spec2Model ----
(***************************************************************************)
(* Aurora connectivity probe (src/HB2.py): lambda_handler and the helpers  *)
(* it calls, as a state machine over the external calls they make.         *)
(*                                                                         *)
(* Every external call (CloudWatch Logs, Secrets Manager, psycopg2) is one *)
(* action; its outcome is drawn from the outcomes the service can give.    *)
(* Python strings built with f-strings are sequences of their parts.       *)
(* An execution environment (a process) runs its invocations one after the *)
(* other, each in a fresh frame; environments share only the services.     *)
(* The minimal variant (src/HeartBeat.py) has its own actions and its own  *)
(* specification over the same frame variables.                            *)
(***************************************************************************)
EXTENDS Integers, Sequences, FiniteSets, TLC

\* ------------------------------------------------------------------ bounds
\* The clock advances in ticks; a second holds TicksPerSecond of them.
TicksPerSecond == 2
\* Last tick the clock can reach.
MaxTick == 2
\* Row identifiers the serial column can hand out.
MaxRecordId == 2

\* Invocations the model follows.
MaxInvocations == 2
\* Answers other than the expected one that the services give while
\* invocations run side by side.
MaxFaults == 1

\* Execution environments: each is one process holding the module's globals.
Procs == {1, 2}
RecordIds == 1..MaxRecordId

\* ------------------------------------------------------- program constants
CUSTOM_LOG_GROUP == "/aws/custom/aurora-connectivity"
LOG_STREAM_PREFIX == "execution-"
\* secrets.get('port', '5432')
DefaultPort == "5432"
\* Python's None, for values that are otherwise sequences (names, rows).
None == << >>
\* connection = None
NoConnection == 0

VARIABLES
  \* the environments that take invocations, the invocations begun so far
  \* and the number of the one each environment runs
  procs, started, invocation,
  \* the log_stream each caller got back, in order of return, and whether the
  \* log service answered every call of that invocation
  returned,
  \* position of the invocation an environment is running
  pc,
  \* locals of lambda_handler and test_db_connection
  timestamp, log_stream_name, db_params, connection, db_version, test_record,
  log_msg, result, response,
  \* what the running (or last) invocation of an environment did
  obs, dbops, locallog, emitted, calls, logFault,
  \* the world outside the process
  clock, logGroupExists, logStreams, openConns

locals == <<timestamp, log_stream_name, db_params, connection, db_version, test_record,
            log_msg, result, response>>
history == <<obs, dbops, locallog, emitted, calls, logFault>>
world == <<clock, logGroupExists, logStreams, openConns>>
vars == <<procs, started, invocation, returned, pc, locals, history, world>>

\* ------------------------------------------------------------ small helpers
NoResult == [status |-> "none"]
NoResponse == [statusCode |-> 0]
NoMsg == [level |-> "NONE", message |-> << >>]
NoParams == [host |-> ""]

Entry(level, message) == [level |-> level, message |-> message]
Goto(i, l) == pc' = [pc EXCEPT ![i] = l]
\* logger.info / logger.warning / logger.error: the local process log
Logged(i, entries) == locallog' = [locallog EXCEPT ![i] = @ \cup entries]
\* one more external call of a kind
Called(i, what) == calls' = [calls EXCEPT ![i][what] = @ + 1]
\* an outcome the environment gave that is not a log-service outcome
Observed(i, call, outcome, id) ==
  obs' = [obs EXCEPT ![i] = Append(@, [call |-> call, outcome |-> outcome, id |-> id])]
\* a statement sent to the database on a connection
Issued(i, stmt, conn, id) ==
  dbops' = [dbops EXCEPT ![i] = Append(@, <<stmt, conn, id>>)]

\* str(e) of the exception an external call raised
Cause(call, exc) == exc \o " in " \o call
\* f"{value}" of a row or of None
Repr(v) == IF v = None THEN "None" ELSE ToString(v)

\* outcomes of a log-service call that is not refused for a name clash
LogOutcomes == {"ok", "ServiceFault"}
\* outcomes of a database call; the first two are what success can look like
DbFaults == {"OperationalError", "Error"}

\* ------------------------------------------------------- log stream manager
\* datetime.now().strftime('%Y%m%d%H%M%S'): resolution of one second
strftime(t) == t \div TicksPerSecond
\* f"{LOG_STREAM_PREFIX}{timestamp}"
StreamName(ts) == <<LOG_STREAM_PREFIX, ts>>

\* f"Failed to create custom log stream: {str(e)}"
CreateFailed(cause) ==
  Entry("ERROR", <<"Failed to create custom log stream: ", cause>>)

\* a log service that takes a stream name it already has
CreateStreamOutcomeAccepting(name, streams, out) == out

\* What logs_client.create_log_stream does with a name: the service refuses a
\* name that exists in the group (ResourceAlreadyExistsException).
CreateStreamOutcome(name, streams, out) ==
  IF out # "ok" THEN out
  ELSE IF name \in streams THEN "ResourceAlreadyExistsException"
  ELSE "ok"

\* create_custom_log_stream's return value after the create_log_stream call:
\* the name, or None from the outer except.
CreatedStream(name, outcome) == IF outcome = "ok" THEN name ELSE None

\* f"[{level}] {message}", the event put_log_events carries
LogEvent(stream, level, message) ==
  [group |-> CUSTOM_LOG_GROUP, stream |-> stream,
   message |-> <<"[" \o level \o "] ">> \o message]

\* f"Failed to write to custom CloudWatch: {str(e)}"
WriteFailed(cause) ==
  Entry("ERROR", <<"Failed to write to custom CloudWatch: ", cause>>)

\* log_to_custom_cloudwatch that returns before put_log_events every time
EmitsNever(stream) == FALSE

\* log_to_custom_cloudwatch: whether put_log_events is called at all
Emits(stream) == stream # None

\* ------------------------------------------------------------ secret store
SecretFields == {"host", "port", "dbname", "username", "password"}
RequiredFields == <<"host", "dbname", "username", "password">>
FieldValue(k) ==
  CASE k = "host" -> "aurora.cluster.local"
    [] k = "port" -> "6432"
    [] k = "dbname" -> "appdb"
    [] k = "username" -> "probe"
    [] k = "password" -> "s3cret"

\* Texts the secret store can hold.  A text is what eval() makes of it: a dict
\* literal with some of the fields, a literal that is no dict, text that does
\* not evaluate (SyntaxError, NameError), or an expression that leaves the
\* interpreter (sys.exit(), which raises SystemExit, no subclass of Exception).
\* Other effects of evaluated text are outside the model.
DictTexts ==
  {[syntax |-> "dict", keys |-> SecretFields \ m] :
     m \in {{}} \cup {{k} : k \in SecretFields}}
SecretStrings ==
  DictTexts \cup {[syntax |-> "number", keys |-> {}],
                  [syntax |-> "invalid", keys |-> {}],
                  [syntax |-> "exit", keys |-> {}]}

\* secrets_client.get_secret_value: a ClientError with the store's code, a
\* response without SecretString, or a response with one.
SecretOutcomes ==
  {[kind |-> "ClientError", code |-> c, text |-> [syntax |-> "none", keys |-> {}]] :
     c \in {"ResourceNotFoundException", "AccessDeniedException"}}
  \cup {[kind |-> "SecretBinary", code |-> "", text |-> [syntax |-> "none", keys |-> {}]]}
  \cup {[kind |-> "SecretString", code |-> "", text |-> t] : t \in SecretStrings}

\* eval(response['SecretString']): a value, or the exception raised
eval(text) ==
  CASE text.syntax = "dict" ->
         [ok |-> TRUE, type |-> "dict", items |-> [k \in text.keys |-> FieldValue(k)],
          raised |-> "", error |-> ""]
    [] text.syntax = "number" ->
         [ok |-> TRUE, type |-> "int", items |-> [k \in {} |-> ""],
          raised |-> "", error |-> ""]
    [] text.syntax = "exit" ->
         [ok |-> FALSE, type |-> "", items |-> [k \in {} |-> ""],
          raised |-> "SystemExit", error |-> "3"]
    [] OTHER ->
         [ok |-> FALSE, type |-> "", items |-> [k \in {} |-> ""],
          raised |-> "SyntaxError", error |-> "invalid syntax"]

\* get_db_secrets raised: there is no value
NoValue == [ok |-> FALSE, type |-> "", items |-> [k \in {} |-> ""],
            raised |-> "", error |-> ""]
\* the exceptions `except Exception` does not catch
Uncaught == {"SystemExit", "KeyboardInterrupt", "GeneratorExit"}
RetrievingEntry == Entry("INFO", <<"Retrieving secrets for: ", "DB_SECRET_NAME value">>)

\* f"Secrets Manager error ({error_code}): {str(e)}"
AccessErrorPrefix(code) == "Secrets Manager error (" \o code \o "): "
\* f"Unexpected secrets error: {str(e)}"
UnexpectedErrorPrefix == "Unexpected secrets error: "

\* get_db_secrets that answers a failed fetch with stand-in credentials
get_db_secrets_default(out) ==
  [ok |-> TRUE, escapes |-> FALSE,
   value |-> eval([syntax |-> "dict", keys |-> SecretFields]), error |-> << >>,
   logs |-> {RetrievingEntry}]

\* get_db_secrets: the value returned, or the Exception raised (error), or
\* the exception that passes its except clauses (escapes), and what it wrote
\* to the local log on the way.
get_db_secrets(out) ==
  IF out.kind = "ClientError" THEN
    LET error_msg == <<AccessErrorPrefix(out.code), "ClientError">>
    IN [ok |-> FALSE, escapes |-> FALSE, value |-> NoValue, error |-> error_msg,
        logs |-> {RetrievingEntry, Entry("ERROR", error_msg)}]
  ELSE IF out.kind = "SecretBinary" THEN
    \* raise Exception("Secret binary not supported") is caught by the
    \* function's own except Exception
    LET error_msg == <<UnexpectedErrorPrefix, "Secret binary not supported">>
    IN [ok |-> FALSE, escapes |-> FALSE, value |-> NoValue, error |-> error_msg,
        logs |-> {RetrievingEntry, Entry("ERROR", error_msg)}]
  ELSE
    LET v == eval(out.text)
        error_msg == <<UnexpectedErrorPrefix, v.error>>
    IN IF v.ok
       THEN [ok |-> TRUE, escapes |-> FALSE, value |-> v, error |-> << >>,
             logs |-> {RetrievingEntry,
                       Entry("INFO", <<"Successfully retrieved database secrets">>)}]
       ELSE IF v.raised \in Uncaught
       THEN [ok |-> FALSE, escapes |-> TRUE, value |-> v, error |-> << >>,
             logs |-> {RetrievingEntry}]
       ELSE [ok |-> FALSE, escapes |-> FALSE, value |-> v, error |-> error_msg,
             logs |-> {RetrievingEntry, Entry("ERROR", error_msg)}]

\* The first required key a dict lacks, in the order lambda_handler reads them
RECURSIVE FirstMissing(_, _)
FirstMissing(keys, n) ==
  IF n > Len(RequiredFields) THEN ""
  ELSE IF RequiredFields[n] \notin keys THEN RequiredFields[n]
  ELSE FirstMissing(keys, n + 1)

\* lambda_handler's db_params from the value get_db_secrets returned: a
\* TypeError for a value that cannot be indexed by a string, a KeyError for a
\* missing key, '5432' for a missing port.
BuildDbParams(secrets) ==
  IF secrets.type # "dict"
  THEN [ok |-> FALSE, params |-> NoParams,
        error |-> <<"'" \o secrets.type \o "' object is not subscriptable">>]
  ELSE LET keys == DOMAIN secrets.items
           missing == FirstMissing(keys, 1)
       IN IF missing # ""
          THEN [ok |-> FALSE, params |-> NoParams, error |-> <<"'" \o missing \o "'">>]
          ELSE [ok |-> TRUE, error |-> << >>,
                params |-> [host |-> secrets.items["host"],
                            port |-> IF "port" \in keys THEN secrets.items["port"]
                                     ELSE DefaultPort,
                            database |-> secrets.items["dbname"],
                            user |-> secrets.items["username"],
                            password |-> secrets.items["password"],
                            connect_timeout |-> 5]]

\* ------------------------------------------------------- connectivity probe
DbVersionRow == <<"PostgreSQL 15.4 on x86_64-pc-linux-gnu">>
\* the row INSERT ... RETURNING id, timestamp, test_value gives
InsertedRow(id) == <<id, "current_timestamp", "Lambda connectivity test">>

\* one except clause for everything
ProbeExceptGeneric(exc, cause) == <<"Database operation failed: ", cause>>

\* an except Exception clause that keeps no text of the fault
ProbeExceptSilent(exc, cause) ==
  IF exc = "OperationalError"
  THEN <<"Database connection failed: ", cause>>
  ELSE << >>

\* except OperationalError / except Exception in test_db_connection
ProbeExcept(exc, cause) ==
  IF exc = "OperationalError"
  THEN <<"Database connection failed: ", cause>>
  ELSE <<"Database operation failed: ", cause>>

FailedResult(error_msg) == [status |-> "failed", error |-> error_msg]

\* the success dict with the deleted identifier left out
SuccessResultNoDeleted(version_row, record) ==
  [status |-> "success",
   version |-> version_row[1],
   test_record |-> record,
   deleted_record_id |-> None]

\* the dict test_db_connection returns after commit; an optional identifier
\* is <<id>> or None
SuccessResult(version_row, record) ==
  [status |-> "success",
   version |-> version_row[1],
   test_record |-> record,
   deleted_record_id |-> IF record # None THEN <<record[1]>> ELSE None]

\* ----------------------------------------------------------- orchestration
success_msg == <<"Successfully connected to and tested Aurora PostgreSQL">>

\* f"Lambda execution failed: {str(e)}"
LambdaFailed(cause) == <<"Lambda execution failed: ">> \o cause

\* lambda_handler's envelope for the result test_db_connection returned
ResultResponse(res, stream) ==
  IF res.status = "success"
  THEN [statusCode |-> 200,
        body |-> [message |-> success_msg,
                  version |-> res.version,
                  test_record_inserted |-> res.test_record,
                  deleted_record_id |-> res.deleted_record_id,
                  log_stream |-> stream]]
  ELSE [statusCode |-> 500,
        body |-> [message |-> <<"Failed to connect to database">>,
                  error |-> res.error,
                  log_stream |-> stream]]

\* lambda_handler's envelope from its except Exception
ExceptResponse(error_msg, stream) ==
  [statusCode |-> 500,
   body |-> [message |-> <<"Lambda execution error">>,
             error |-> error_msg,
             log_stream |-> stream]]


\* ------------------------------------------------------------------- state
FreshCalls == [connect |-> 0, close |-> 0, secret |-> 0, stream |-> 0]

\* nothing has run: no invocation, no stream, no connection
Fresh ==
  /\ started = 0
  /\ invocation = [p \in Procs |-> 0]
  /\ returned = << >>
  /\ pc = [p \in Procs |-> "idle"]
  /\ timestamp = [p \in Procs |-> 0]
  /\ log_stream_name = [p \in Procs |-> None]
  /\ db_params = [p \in Procs |-> NoParams]
  /\ connection = [p \in Procs |-> NoConnection]
  /\ db_version = [p \in Procs |-> None]
  /\ test_record = [p \in Procs |-> None]
  /\ log_msg = [p \in Procs |-> NoMsg]
  /\ result = [p \in Procs |-> NoResult]
  /\ response = [p \in Procs |-> NoResponse]
  /\ obs = [p \in Procs |-> << >>]
  /\ dbops = [p \in Procs |-> << >>]
  /\ locallog = [p \in Procs |-> {}]
  /\ emitted = [p \in Procs |-> << >>]
  /\ calls = [p \in Procs |-> FreshCalls]
  /\ logFault = [p \in Procs |-> FALSE]
  /\ clock = 0
  /\ logGroupExists \in BOOLEAN
  /\ logStreams = {}
  /\ openConns = {}

\* one execution environment: invocations come one after the other
Init == procs = {1} /\ Fresh

\* --------------------------------------------- create_custom_log_stream
\* lambda_handler is entered in a fresh frame (after an exception that left
\* the handler, in a restarted runtime); create_custom_log_stream reads the
\* clock.  Time passes between invocations, never backwards.
Invoke(p) ==
  /\ p \in procs
  /\ pc[p] \in {"idle", "done", "escaped"}
  /\ started < MaxInvocations
  /\ started' = started + 1
  /\ invocation' = [invocation EXCEPT ![p] = started + 1]
  /\ \E t \in clock..MaxTick :
       /\ clock' = t
       /\ timestamp' = [timestamp EXCEPT ![p] = strftime(t)]
  /\ Goto(p, "create_log_group")
  /\ log_stream_name' = [log_stream_name EXCEPT ![p] = None]
  /\ db_params' = [db_params EXCEPT ![p] = NoParams]
  /\ connection' = [connection EXCEPT ![p] = NoConnection]
  /\ db_version' = [db_version EXCEPT ![p] = None]
  /\ test_record' = [test_record EXCEPT ![p] = None]
  /\ log_msg' = [log_msg EXCEPT ![p] = NoMsg]
  /\ result' = [result EXCEPT ![p] = NoResult]
  /\ response' = [response EXCEPT ![p] = NoResponse]
  /\ obs' = [obs EXCEPT ![p] = << >>]
  /\ dbops' = [dbops EXCEPT ![p] = << >>]
  /\ locallog' = [locallog EXCEPT ![p] = {}]
  /\ emitted' = [emitted EXCEPT ![p] = << >>]
  /\ calls' = [calls EXCEPT ![p] = FreshCalls]
  /\ logFault' = [logFault EXCEPT ![p] = FALSE]
  /\ UNCHANGED <<procs, returned, logGroupExists, logStreams, openConns>>

\* the outer except of create_custom_log_stream: log locally, return None
StreamAbsent(p, cause) ==
  /\ Logged(p, {CreateFailed(cause)})
  /\ log_stream_name' = [log_stream_name EXCEPT ![p] = None]
  /\ Goto(p, "environ")

\* create_log_group with no except clause of its own: a group that exists
\* ends in the outer except
CreateLogGroupStrict(p) ==
  /\ pc[p] = "create_log_group"
  /\ \E out \in LogOutcomes :
       IF out # "ok"
       THEN /\ StreamAbsent(p, out)
            /\ logFault' = [logFault EXCEPT ![p] = TRUE]
            /\ UNCHANGED logGroupExists
       ELSE IF logGroupExists
       THEN /\ StreamAbsent(p, "ResourceAlreadyExistsException")
            /\ UNCHANGED <<logFault, logGroupExists>>
       ELSE /\ logGroupExists' = TRUE
            /\ Goto(p, "put_retention_policy")
            /\ UNCHANGED <<log_stream_name, locallog, logFault>>
  /\ UNCHANGED <<procs, started, invocation, returned, timestamp, db_params, connection,
                 db_version, test_record, log_msg, result, response, obs,
                 dbops, emitted, calls, clock, logStreams, openConns>>

\* logs_client.create_log_group; ResourceAlreadyExistsException is passed over
CreateLogGroup(p) ==
  /\ pc[p] = "create_log_group"
  /\ \E out \in LogOutcomes :
       IF out # "ok"
       THEN /\ StreamAbsent(p, out)
            /\ logFault' = [logFault EXCEPT ![p] = TRUE]
            /\ UNCHANGED logGroupExists
       ELSE /\ logGroupExists' = TRUE
            /\ Goto(p, IF logGroupExists THEN "create_log_stream"
                       ELSE "put_retention_policy")
            /\ UNCHANGED <<log_stream_name, locallog, logFault>>
  /\ UNCHANGED <<procs, started, invocation, returned, timestamp, db_params, connection,
                 db_version, test_record, log_msg, result, response, obs,
                 dbops, emitted, calls, clock, logStreams, openConns>>

\* logs_client.put_retention_policy, after the group was created
PutRetentionPolicy(p) ==
  /\ pc[p] = "put_retention_policy"
  /\ \E out \in LogOutcomes :
       IF out # "ok"
       THEN /\ StreamAbsent(p, out)
            /\ logFault' = [logFault EXCEPT ![p] = TRUE]
       ELSE /\ Goto(p, "create_log_stream")
            /\ UNCHANGED <<log_stream_name, locallog, logFault>>
  /\ UNCHANGED <<procs, started, invocation, returned, timestamp, db_params, connection,
                 db_version, test_record, log_msg, result, response, obs,
                 dbops, emitted, calls, world>>

\* logs_client.create_log_stream and the return of create_custom_log_stream
CreateLogStream(p) ==
  /\ pc[p] = "create_log_stream"
  /\ Called(p, "stream")
  /\ \E out \in LogOutcomes :
       LET name == StreamName(timestamp[p])
           outcome == CreateStreamOutcome(name, logStreams, out)
       IN /\ logFault' = [logFault EXCEPT ![p] = (out # "ok")]
          /\ IF outcome = "ok"
             THEN /\ logStreams' = logStreams \cup {name}
                  /\ log_stream_name' =
                       [log_stream_name EXCEPT ![p] = CreatedStream(name, outcome)]
                  /\ Goto(p, "environ")
                  /\ UNCHANGED locallog
             ELSE /\ StreamAbsent(p, outcome)
                  /\ UNCHANGED logStreams
  /\ UNCHANGED <<procs, started, invocation, returned, timestamp, db_params, connection,
                 db_version, test_record, log_msg, result, response, obs,
                 dbops, emitted, clock, logGroupExists, openConns>>

\* ------------------------------------------------------------ lambda_handler
\* the handler's except Exception is entered with str(e)
HandlerExcept(p, cause) ==
  /\ log_msg' = [log_msg EXCEPT ![p] = Entry("ERROR", LambdaFailed(cause))]
  /\ Goto(p, "log_handler_error")

\* os.environ.get in place of os.environ[...]: nothing is raised
EnvironNeverRaises(present) == FALSE

\* os.environ['DB_SECRET_NAME'] raises KeyError for a name that is not set
EnvironRaises(present) == ~present

\* secret_name = os.environ['DB_SECRET_NAME']
ReadEnviron(p) ==
  /\ pc[p] = "environ"
  /\ \E present \in BOOLEAN :
       /\ Observed(p, "environ", IF present THEN "present" ELSE "absent", 0)
       /\ IF EnvironRaises(present)
          THEN HandlerExcept(p, <<"'DB_SECRET_NAME'">>)
          ELSE Goto(p, "get_secret") /\ UNCHANGED log_msg
  /\ UNCHANGED <<procs, started, invocation, returned, timestamp, log_stream_name,
                 db_params, connection, db_version, test_record, result,
                 response, dbops, locallog, emitted, calls, logFault, world>>

\* f"Attempting to connect to database at {db_params['host']}"
AttemptMsg(params) ==
  Entry("INFO", <<"Attempting to connect to database at ", params.host>>)

\* get_db_secrets(secret_name) and the db_params built from what it returns
ResolveSecret(p) ==
  /\ pc[p] = "get_secret"
  /\ Called(p, "secret")
  /\ \E out \in SecretOutcomes :
       LET got == get_db_secrets(out)
           built == BuildDbParams(got.value)
       IN /\ Observed(p, "get_secret_value", ToString(out), 0)
          /\ Logged(p, got.logs)
          /\ IF got.escapes
               THEN Goto(p, "escaped") /\ UNCHANGED <<db_params, log_msg>>
             ELSE IF ~got.ok
               THEN HandlerExcept(p, got.error) /\ UNCHANGED db_params
             ELSE IF ~built.ok
               THEN HandlerExcept(p, built.error) /\ UNCHANGED db_params
             ELSE /\ db_params' = [db_params EXCEPT ![p] = built.params]
                  /\ log_msg' = [log_msg EXCEPT ![p] = AttemptMsg(built.params)]
                  /\ Goto(p, "log_attempt")
  /\ UNCHANGED <<procs, started, invocation, returned, timestamp, log_stream_name,
                 connection, db_version, test_record, result, response, dbops,
                 emitted, logFault, world>>

\* --------------------------------- logger.<level>(msg) + log_to_custom_cloudwatch
LogLabels == {"log_attempt", "log_version", "log_record", "log_verify",
              "log_delete", "log_probe_error", "log_success",
              "log_handler_error"}

\* AfterLog without the finally clause: the error path returns at once
AfterLogNoFinally(l) ==
  CASE l = "log_attempt" -> "connect"
    [] l = "log_version" -> "exec_create"
    [] l = "log_record" -> "exec_reread1"
    [] l = "log_verify" -> "exec_delete"
    [] l = "log_delete" -> "exec_reread2"
    [] l = "log_probe_error" -> "map_result"
    [] l = "log_success" -> "done"
    [] l = "log_handler_error" -> "done"

\* AfterLog without the re-read that follows the insert
AfterLogNoReread(l) ==
  CASE l = "log_attempt" -> "connect"
    [] l = "log_version" -> "exec_create"
    [] l = "log_record" -> "exec_delete"
    [] l = "log_verify" -> "exec_delete"
    [] l = "log_delete" -> "exec_reread2"
    [] l = "log_probe_error" -> "finally"
    [] l = "log_success" -> "done"
    [] l = "log_handler_error" -> "done"

\* AfterLog with the commit straight after the delete
AfterLogCommitAfterDelete(l) ==
  CASE l = "log_attempt" -> "connect"
    [] l = "log_version" -> "exec_create"
    [] l = "log_record" -> "exec_reread1"
    [] l = "log_verify" -> "exec_delete"
    [] l = "log_delete" -> "commit"
    [] l = "log_probe_error" -> "finally"
    [] l = "log_success" -> "done"
    [] l = "log_handler_error" -> "done"

\* AfterLog that tries the connection again after a failure
AfterLogRetry(l) ==
  CASE l = "log_attempt" -> "connect"
    [] l = "log_version" -> "exec_create"
    [] l = "log_record" -> "exec_reread1"
    [] l = "log_verify" -> "exec_delete"
    [] l = "log_delete" -> "exec_reread2"
    [] l = "log_probe_error" -> "connect"
    [] l = "log_success" -> "done"
    [] l = "log_handler_error" -> "done"

\* where control goes after a mirrored log line
AfterLog(l) ==
  CASE l = "log_attempt" -> "connect"
    [] l = "log_version" -> "exec_create"
    [] l = "log_record" -> "exec_reread1"
    [] l = "log_verify" -> "exec_delete"
    [] l = "log_delete" -> "exec_reread2"
    [] l = "log_probe_error" -> "finally"
    [] l = "log_success" -> "done"
    [] l = "log_handler_error" -> "done"

\* log_to_custom_cloudwatch without its try: what put_log_events raises inside
\* the probe reaches the probe's except clause
AfterEmitUncaught(l, out) ==
  IF out # "ok" /\ l \notin {"log_probe_error", "log_success", "log_handler_error"}
  THEN "log_probe_error"
  ELSE AfterLog(l)

\* log_to_custom_cloudwatch catches what put_log_events raises: control goes
\* on whatever the outcome of the emission
AfterEmit(l, out) == AfterLog(l)

\* what the caller is told of an invocation that returns
Returned(p, resp, fault) ==
  returned' = Append(returned, [log_stream |-> resp.body.log_stream,
                                healthy |-> ~fault])

\* One message goes to the local log and, with a handle, to put_log_events,
\* whose failure is caught and logged locally.  The statement after the pair is
\* a return in three places.
Log(p) ==
  /\ pc[p] \in LogLabels
  /\ emitted' = [emitted EXCEPT ![p] =
       IF Emits(log_stream_name[p])
       THEN Append(@, LogEvent(log_stream_name[p], log_msg[p].level,
                               log_msg[p].message))
       ELSE @]
  /\ result' = [result EXCEPT ![p] =
       IF pc[p] = "log_probe_error" THEN FailedResult(log_msg[p].message) ELSE @]
  /\ response' = [response EXCEPT ![p] =
       CASE pc[p] = "log_success" -> ResultResponse(result[p], log_stream_name[p])
         [] pc[p] = "log_handler_error" ->
              ExceptResponse(log_msg[p].message, log_stream_name[p])
         [] OTHER -> @]
  /\ \E out \in (IF Emits(log_stream_name[p]) THEN LogOutcomes ELSE {"ok"}) :
       /\ Logged(p, {log_msg[p]} \cup
                    (IF out = "ok" THEN {} ELSE {WriteFailed(out)}))
       /\ logFault' = [logFault EXCEPT ![p] = @ \/ out # "ok"]
       /\ IF AfterEmit(pc[p], out) = "done"
          THEN Returned(p, response'[p], logFault[p] \/ out # "ok")
          ELSE UNCHANGED returned
       /\ Goto(p, AfterEmit(pc[p], out))
  /\ UNCHANGED <<procs, started, invocation, timestamp, log_stream_name, db_params,
                 connection, db_version, test_record, log_msg, obs, dbops,
                 calls, world>>

\* --------------------------------------------------------- test_db_connection
\* an external call raised inside the try: the matching except clause builds
\* error_msg, which is then logged to both sinks
ProbeFault(p, exc, cause) ==
  /\ log_msg' = [log_msg EXCEPT ![p] = Entry("ERROR", ProbeExcept(exc, cause))]
  /\ Goto(p, "log_probe_error")

\* one connection kept in a module global and handed to every invocation
PooledConnection(p) == 1

\* the connection object psycopg2.connect makes for an invocation
NewConnection(p) == invocation[p]

\* psycopg2.connect(**db_params)
Connect(p) ==
  /\ pc[p] = "connect"
  /\ Called(p, "connect")
  /\ \E out \in {"ok"} \cup DbFaults :
       /\ Observed(p, "connect", out, 0)
       /\ IF out = "ok"
          THEN /\ openConns' = openConns \cup {NewConnection(p)}
               /\ connection' = [connection EXCEPT ![p] = NewConnection(p)]
               /\ Issued(p, "connect", NewConnection(p), 0)
               /\ Goto(p, "exec_version")
               /\ UNCHANGED log_msg
          ELSE /\ ProbeFault(p, out, Cause("connect", out))
               /\ Issued(p, "connect", NoConnection, 0)
               /\ UNCHANGED <<openConns, connection>>
  /\ UNCHANGED <<procs, started, invocation, returned, timestamp, log_stream_name,
                 db_params, db_version, test_record, result, response,
                 locallog, emitted, logFault, clock, logGroupExists,
                 logStreams>>

\* what indexing a fetched row that is None raises
NotSubscriptable == "'NoneType' object is not subscriptable"

\* cursor.execute("SELECT version();"); db_version = cursor.fetchone()
ExecVersion(p) ==
  /\ pc[p] = "exec_version"
  /\ Issued(p, "version", connection[p], 0)
  /\ \E out \in {"row", "norow"} \cup DbFaults :
       /\ Observed(p, "version", out, 0)
       /\ CASE out = "row" ->
                 /\ db_version' = [db_version EXCEPT ![p] = DbVersionRow]
                 /\ log_msg' = [log_msg EXCEPT ![p] =
                      Entry("INFO", <<"Database version: ", DbVersionRow[1]>>)]
                 /\ Goto(p, "log_version")
            [] out = "norow" ->
                 /\ ProbeFault(p, "TypeError", NotSubscriptable)
                 /\ UNCHANGED db_version
            [] OTHER ->
                 /\ ProbeFault(p, out, Cause("version", out))
                 /\ UNCHANGED db_version
  /\ UNCHANGED <<procs, started, invocation, returned, timestamp, log_stream_name,
                 db_params, connection, test_record, result, response,
                 locallog, emitted, calls, logFault, world>>

\* cursor.execute("CREATE TEMP TABLE IF NOT EXISTS lambda_test ...")
ExecCreate(p) ==
  /\ pc[p] = "exec_create"
  /\ Issued(p, "create", connection[p], 0)
  /\ \E out \in {"ok"} \cup DbFaults :
       /\ Observed(p, "create", out, 0)
       /\ IF out = "ok" THEN Goto(p, "exec_insert") /\ UNCHANGED log_msg
          ELSE ProbeFault(p, out, Cause("create", out))
  /\ UNCHANGED <<procs, started, invocation, returned, timestamp, log_stream_name,
                 db_params, connection, db_version, test_record, result,
                 response, locallog, emitted, calls, logFault, world>>

\* cursor.execute("INSERT ... RETURNING id, timestamp, test_value");
\* test_record = cursor.fetchone()
ExecInsert(p) ==
  /\ pc[p] = "exec_insert"
  /\ Issued(p, "insert", connection[p], 0)
  /\ \E out \in {"row", "norow"} \cup DbFaults, id \in RecordIds :
       LET row == IF out = "row" THEN InsertedRow(id) ELSE None
       IN /\ out # "row" => id = 1
          /\ Observed(p, "insert", out, IF out = "row" THEN id ELSE 0)
          /\ IF out \in DbFaults
             THEN /\ ProbeFault(p, out, Cause("insert", out))
                  /\ UNCHANGED test_record
             ELSE /\ test_record' = [test_record EXCEPT ![p] = row]
                  /\ log_msg' = [log_msg EXCEPT ![p] =
                       Entry("INFO", <<"Test record inserted: ", Repr(row)>>)]
                  /\ Goto(p, "log_record")
  /\ UNCHANGED <<procs, started, invocation, returned, timestamp, log_stream_name,
                 db_params, connection, db_version, result, response,
                 locallog, emitted, calls, logFault, world>>

\* cursor.execute("SELECT * FROM lambda_test WHERE id = %s;", (test_record[0],));
\* verify_record = cursor.fetchone().  test_record[0] raises for None before
\* anything is sent.
ExecReread1(p) ==
  /\ pc[p] = "exec_reread1"
  /\ IF test_record[p] = None
     THEN /\ ProbeFault(p, "TypeError", NotSubscriptable)
          /\ UNCHANGED <<obs, dbops>>
     ELSE /\ Issued(p, "select", connection[p], test_record[p][1])
          /\ \E out \in {"row", "norow"} \cup DbFaults :
               /\ Observed(p, "reread1", out, 0)
               /\ IF out \in DbFaults
                  THEN ProbeFault(p, out, Cause("reread1", out))
                  ELSE /\ log_msg' = [log_msg EXCEPT ![p] =
                            Entry("INFO", <<"Record verification: ",
                              Repr(IF out = "row" THEN test_record[p] ELSE None)>>)]
                       /\ Goto(p, "log_verify")
  /\ UNCHANGED <<procs, started, invocation, returned, timestamp, log_stream_name,
                 db_params, connection, db_version, test_record, result,
                 response, locallog, emitted, calls, logFault, world>>

\* if test_record: cursor.execute("DELETE FROM lambda_test WHERE id = %s;", ...)
\* and, with no record, straight on to the commit
ExecDelete(p) ==
  /\ pc[p] = "exec_delete"
  /\ IF test_record[p] # None
     THEN /\ Issued(p, "delete", connection[p], test_record[p][1])
          /\ \E out \in {"ok"} \cup DbFaults :
               /\ Observed(p, "delete", out, 0)
               /\ IF out = "ok"
                  THEN /\ log_msg' = [log_msg EXCEPT ![p] =
                            Entry("INFO", <<"Deleted test record with ID: ",
                                            ToString(test_record[p][1])>>)]
                       /\ Goto(p, "log_delete")
                  ELSE ProbeFault(p, out, Cause("delete", out))
     ELSE /\ Goto(p, "commit")
          /\ UNCHANGED <<dbops, obs, log_msg>>
  /\ UNCHANGED <<procs, started, invocation, returned, timestamp, log_stream_name,
                 db_params, connection, db_version, test_record, result,
                 response, locallog, emitted, calls, logFault, world>>

\* the verdict logged at INFO whatever the re-read found
DeletionVerdictInfo(verify_deletion) ==
  Entry("INFO", <<"Record successfully deleted">>)

\* what the local log says of the re-read after the delete
DeletionVerdict(verify_deletion) ==
  IF verify_deletion = None
  THEN Entry("INFO", <<"Record successfully deleted">>)
  ELSE Entry("WARNING", <<"Record still exists after deletion">>)

\* cursor.execute("SELECT ..."); verify_deletion = cursor.fetchone(); the
\* verdict goes to the local log only
ExecReread2(p) ==
  /\ pc[p] = "exec_reread2"
  /\ Issued(p, "select", connection[p], test_record[p][1])
  /\ \E out \in {"row", "norow"} \cup DbFaults :
       /\ Observed(p, "reread2", out, 0)
       /\ IF out \in DbFaults
          THEN ProbeFault(p, out, Cause("reread2", out)) /\ UNCHANGED locallog
          ELSE /\ Logged(p, {DeletionVerdict(IF out = "row" THEN test_record[p]
                                             ELSE None)})
               /\ Goto(p, "commit")
               /\ UNCHANGED log_msg
  /\ UNCHANGED <<procs, started, invocation, returned, timestamp, log_stream_name,
                 db_params, connection, db_version, test_record, result,
                 response, emitted, calls, logFault, world>>

\* connection.commit() and the return of the success dict
Commit(p) ==
  /\ pc[p] = "commit"
  /\ Issued(p, "commit", connection[p], 0)
  /\ \E out \in {"ok"} \cup DbFaults :
       /\ Observed(p, "commit", out, 0)
       /\ IF out = "ok"
          THEN /\ result' = [result EXCEPT ![p] =
                    SuccessResult(db_version[p], test_record[p])]
               /\ Goto(p, "finally")
               /\ UNCHANGED log_msg
          ELSE ProbeFault(p, out, Cause("commit", out)) /\ UNCHANGED result
  /\ UNCHANGED <<procs, started, invocation, returned, timestamp, log_stream_name,
                 db_params, connection, db_version, test_record, response,
                 locallog, emitted, calls, logFault, world>>

\* finally: if connection: connection.close()
Closes(conn) == conn # NoConnection

\* The finally clause, then the return to lambda_handler.  An exception from
\* close() replaces the value being returned and reaches the handler's except.
Finally(p) ==
  /\ pc[p] = "finally"
  /\ IF Closes(connection[p])
     THEN /\ Called(p, "close")
          /\ Issued(p, "close", connection[p], 0)
          /\ openConns' = openConns \ {connection[p]}
          /\ \E out \in {"ok", "Error"} :
               /\ Observed(p, "close", out, 0)
               /\ IF out = "ok"
                  THEN /\ Logged(p, {Entry("INFO", <<"Database connection closed">>)})
                       /\ Goto(p, "map_result")
                       /\ UNCHANGED <<log_msg, result>>
                  ELSE /\ HandlerExcept(p, <<Cause("close", out)>>)
                       /\ result' = [result EXCEPT ![p] = NoResult]
                       /\ UNCHANGED locallog
     ELSE /\ Goto(p, "map_result")
          /\ UNCHANGED <<calls, dbops, openConns, obs, log_msg, result,
                         locallog>>
  /\ UNCHANGED <<procs, started, invocation, returned, timestamp, log_stream_name,
                 db_params, connection, db_version, test_record, response,
                 emitted, logFault, clock, logGroupExists, logStreams>>

\* if result['status'] == 'success': ... else: logger.error(...); return 500
MapResult(p) ==
  /\ pc[p] = "map_result"
  /\ IF result[p].status = "success"
     THEN /\ log_msg' = [log_msg EXCEPT ![p] = Entry("INFO", success_msg)]
          /\ Goto(p, "log_success")
          /\ UNCHANGED <<locallog, response, returned>>
     ELSE /\ Logged(p, {Entry("ERROR", <<"Failed to connect to database">>)})
          /\ response' = [response EXCEPT ![p] =
               ResultResponse(result[p], log_stream_name[p])]
          /\ Returned(p, response'[p], logFault[p])
          /\ Goto(p, "done")
          /\ UNCHANGED log_msg
  /\ UNCHANGED <<procs, started, invocation, timestamp, log_stream_name, db_params,
                 connection, db_version, test_record, result, obs, dbops,
                 emitted, calls, logFault, world>>

Next == \E p \in Procs :
  \/ Invoke(p) \/ CreateLogGroup(p) \/ PutRetentionPolicy(p)
  \/ CreateLogStream(p) \/ ReadEnviron(p) \/ ResolveSecret(p) \/ Log(p)
  \/ Connect(p) \/ ExecVersion(p) \/ ExecCreate(p) \/ ExecInsert(p)
  \/ ExecReread1(p) \/ ExecDelete(p) \/ ExecReread2(p) \/ Commit(p)
  \/ Finally(p) \/ MapResult(p)

Spec == Init /\ [][Next]_vars

\* ------------------------------------------------ concurrent invocations
\* The service runs a second execution environment when an invocation comes
\* while the first is busy.  Each environment has its own copy of the module
\* globals and its own frame; they share the log service, the secret store,
\* the database and the clock.  Steps interleave at the external calls.
ExpectedSecret ==
  ToString([kind |-> "SecretString", code |-> "",
            text |-> [syntax |-> "dict", keys |-> SecretFields]])
\* the answer a call gives when nothing is wrong
Expected(e) ==
  CASE e.call = "environ" -> e.outcome = "present"
    [] e.call = "get_secret_value" -> e.outcome = ExpectedSecret
    [] e.call \in {"version", "insert", "reread1"} -> e.outcome = "row"
    [] e.call = "reread2" -> e.outcome = "norow"
    [] OTHER -> e.outcome = "ok"
\* the answers other than the expected one that the running invocations got
Faults ==
  LET F(p) == Cardinality({n \in DOMAIN obs[p] : ~Expected(obs[p][n])})
              + (IF logFault[p] THEN 1 ELSE 0)
  IN F(1) + F(2)
WithinFaults == Faults <= MaxFaults

\* two environments against an account where the log group is yet to be made
InitConc == procs = Procs /\ Fresh /\ ~logGroupExists

NextConc == \E p \in Procs :
  \/ Invoke(p) /\ WithinFaults'
  \/ CreateLogGroup(p) /\ WithinFaults'
  \/ PutRetentionPolicy(p) /\ WithinFaults'
  \/ CreateLogStream(p) /\ WithinFaults'
  \/ ReadEnviron(p) /\ WithinFaults'
  \/ ResolveSecret(p) /\ WithinFaults'
  \/ Log(p) /\ WithinFaults'
  \/ Connect(p) /\ WithinFaults'
  \/ ExecVersion(p) /\ WithinFaults'
  \/ ExecCreate(p) /\ WithinFaults'
  \/ ExecInsert(p) /\ WithinFaults'
  \/ ExecReread1(p) /\ WithinFaults'
  \/ ExecDelete(p) /\ WithinFaults'
  \/ ExecReread2(p) /\ WithinFaults'
  \/ Commit(p) /\ WithinFaults'
  \/ Finally(p) /\ WithinFaults'
  \/ MapResult(p) /\ WithinFaults'

SpecConc == InitConc /\ [][NextConc]_vars
\* ------------------------------------------- HeartBeat.py: the minimal variant
\* HeartBeat.lambda_handler reads its settings from the environment, connects,
\* runs two queries and closes.  It uses the frame variables db_params,
\* connection, db_version and response, and neither the log service nor the
\* secret store.
hbUnused == <<procs, returned, timestamp, log_stream_name, test_record, log_msg,
              result, emitted, logFault, clock, logGroupExists, logStreams>>

HBSettings == {"DB_HOST", "DB_PORT", "DB_NAME", "DB_USER", "DB_PASSWORD"}
\* the settings read with os.environ[...], in the order the dict literal reads them
HBRequired == <<"DB_HOST", "DB_NAME", "DB_USER", "DB_PASSWORD">>
HBValue(k) ==
  CASE k = "DB_HOST" -> "aurora.cluster.local"
    [] k = "DB_PORT" -> "6432"
    [] k = "DB_NAME" -> "appdb"
    [] k = "DB_USER" -> "probe"
    [] k = "DB_PASSWORD" -> "s3cret"

\* the first required setting the environment lacks, "" when it has them all
RECURSIVE HBFirstMissing(_, _)
HBFirstMissing(environ, n) ==
  IF n > Len(HBRequired) THEN ""
  ELSE IF HBRequired[n] \notin environ THEN HBRequired[n]
  ELSE HBFirstMissing(environ, n + 1)

\* db_params = {...}: os.environ.get('DB_PORT', '5432') for the port
HBDbParams(environ) ==
  [host |-> HBValue("DB_HOST"),
   port |-> IF "DB_PORT" \in environ THEN HBValue("DB_PORT") ELSE DefaultPort,
   database |-> HBValue("DB_NAME"),
   user |-> HBValue("DB_USER"),
   password |-> HBValue("DB_PASSWORD")]

\* the envelope of the return inside the try
HBSuccess(version_row, time_row) ==
  [statusCode |-> 200,
   body |-> <<"Successfully connected to Aurora PostgreSQL">>,
   version |-> version_row[1],
   timestamp |-> ToString(time_row[1])]

\* except OperationalError / except Exception: the envelope returned
HBExcept(exc, cause) ==
  [statusCode |-> 500,
   body |-> IF exc = "OperationalError" THEN <<"Connection failed: ", cause>>
            ELSE <<"Unexpected error: ", cause>>]

\* lambda_handler is entered in a fresh frame
HBInvoke(p) ==
  /\ p \in procs
  /\ pc[p] \in {"idle", "done", "escaped"}
  /\ started < MaxInvocations
  /\ started' = started + 1
  /\ invocation' = [invocation EXCEPT ![p] = started + 1]
  /\ Goto(p, "hb_environ")
  /\ db_params' = [db_params EXCEPT ![p] = NoParams]
  /\ connection' = [connection EXCEPT ![p] = NoConnection]
  /\ db_version' = [db_version EXCEPT ![p] = None]
  /\ response' = [response EXCEPT ![p] = NoResponse]
  /\ obs' = [obs EXCEPT ![p] = << >>]
  /\ dbops' = [dbops EXCEPT ![p] = << >>]
  /\ locallog' = [locallog EXCEPT ![p] = {}]
  /\ calls' = [calls EXCEPT ![p] = FreshCalls]
  /\ UNCHANGED <<hbUnused, openConns>>

\* db_params = {...} before the try: a KeyError for a missing setting leaves
\* lambda_handler; then logger.info(f"Attempting to connect ...")
HBReadEnviron(p) ==
  /\ pc[p] = "hb_environ"
  /\ \E environ \in SUBSET HBSettings :
       LET missing == HBFirstMissing(environ, 1)
       IN IF missing # ""
          THEN /\ Observed(p, "environ", missing, 0)
               /\ Goto(p, "escaped")
               /\ UNCHANGED <<db_params, locallog>>
          ELSE /\ Observed(p, "environ", "present", 0)
               /\ db_params' = [db_params EXCEPT ![p] = HBDbParams(environ)]
               /\ Logged(p, {AttemptMsg(HBDbParams(environ))})
               /\ Goto(p, "hb_connect")
  /\ UNCHANGED <<hbUnused, started, invocation, connection, db_version, response,
                 dbops, calls, openConns>>

\* an external call raised inside the try: the matching except clause logs
\* error_msg and returns the envelope, then the finally clause runs
HBFault(p, exc, cause) ==
  /\ response' = [response EXCEPT ![p] = HBExcept(exc, cause)]
  /\ Logged(p, {Entry("ERROR", HBExcept(exc, cause).body)})
  /\ Goto(p, "hb_finally")

\* connection = psycopg2.connect(**db_params)
HBConnect(p) ==
  /\ pc[p] = "hb_connect"
  /\ Called(p, "connect")
  /\ \E out \in {"ok"} \cup DbFaults :
       /\ Observed(p, "connect", out, 0)
       /\ IF out = "ok"
          THEN /\ openConns' = openConns \cup {NewConnection(p)}
               /\ connection' = [connection EXCEPT ![p] = NewConnection(p)]
               /\ Issued(p, "connect", NewConnection(p), 0)
               /\ Goto(p, "hb_exec_version")
               /\ UNCHANGED <<response, locallog>>
          ELSE /\ HBFault(p, out, Cause("connect", out))
               /\ Issued(p, "connect", NoConnection, 0)
               /\ UNCHANGED <<openConns, connection>>
  /\ UNCHANGED <<hbUnused, started, invocation, db_params, db_version>>

\* cursor.execute("SELECT version();"); db_version = cursor.fetchone();
\* logger.info(f"... Version: {db_version[0]}")
HBExecVersion(p) ==
  /\ pc[p] = "hb_exec_version"
  /\ Issued(p, "version", connection[p], 0)
  /\ \E out \in {"row", "norow"} \cup DbFaults :
       /\ Observed(p, "version", out, 0)
       /\ CASE out = "row" ->
                 /\ db_version' = [db_version EXCEPT ![p] = DbVersionRow]
                 /\ Logged(p, {Entry("INFO",
                      <<"Successfully connected to PostgreSQL. Version: ",
                        DbVersionRow[1]>>)})
                 /\ Goto(p, "hb_exec_timestamp")
                 /\ UNCHANGED response
            [] out = "norow" ->
                 /\ HBFault(p, "TypeError", NotSubscriptable)
                 /\ UNCHANGED db_version
            [] OTHER ->
                 /\ HBFault(p, out, Cause("version", out))
                 /\ UNCHANGED db_version
  /\ UNCHANGED <<hbUnused, started, invocation, db_params, connection, calls,
                 openConns>>

\* the row SELECT current_timestamp gives
HBTimeRow == <<"2026-01-01 00:00:00+00">>

\* cursor.execute("SELECT current_timestamp;"); current_time = cursor.fetchone();
\* logger.info(...); the return statement builds the envelope
HBExecTimestamp(p) ==
  /\ pc[p] = "hb_exec_timestamp"
  /\ Issued(p, "current_timestamp", connection[p], 0)
  /\ \E out \in {"row", "norow"} \cup DbFaults :
       /\ Observed(p, "current_timestamp", out, 0)
       /\ CASE out = "row" ->
                 /\ Logged(p, {Entry("INFO",
                      <<"Database current timestamp: ", HBTimeRow[1]>>)})
                 /\ response' = [response EXCEPT ![p] =
                      HBSuccess(db_version[p], HBTimeRow)]
                 /\ Goto(p, "hb_finally")
            [] out = "norow" -> HBFault(p, "TypeError", NotSubscriptable)
            [] OTHER -> HBFault(p, out, Cause("current_timestamp", out))
  /\ UNCHANGED <<hbUnused, started, invocation, db_params, connection, db_version,
                 calls, openConns>>

\* finally: if connection: connection.close()
HBCloses(conn) == conn # NoConnection

\* The finally clause, then the return of the envelope.  An exception from
\* close() replaces the return and leaves lambda_handler.
HBFinally(p) ==
  /\ pc[p] = "hb_finally"
  /\ IF HBCloses(connection[p])
     THEN /\ Called(p, "close")
          /\ Issued(p, "close", connection[p], 0)
          /\ openConns' = openConns \ {connection[p]}
          /\ \E out \in {"ok", "Error"} :
               /\ Observed(p, "close", out, 0)
               /\ IF out = "ok"
                  THEN /\ Logged(p, {Entry("INFO", <<"Database connection closed">>)})
                       /\ Goto(p, "done")
                       /\ UNCHANGED response
                  ELSE /\ response' = [response EXCEPT ![p] = NoResponse]
                       /\ Goto(p, "escaped")
                       /\ UNCHANGED locallog
     ELSE /\ Goto(p, "done")
          /\ UNCHANGED <<calls, dbops, openConns, obs, response, locallog>>
  /\ UNCHANGED <<hbUnused, started, invocation, db_params, connection, db_version>>

NextHB == \E p \in Procs :
  \/ HBInvoke(p) \/ HBReadEnviron(p) \/ HBConnect(p) \/ HBExecVersion(p)
  \/ HBExecTimestamp(p) \/ HBFinally(p)

SpecHB == Init /\ [][NextHB]_vars

\* ===================================================================== claims
Terminal(p) == pc[p] \in {"done", "escaped"}
\* the outcomes the invocation saw from one kind of call
Seen(p, call) == {obs[p][k].outcome : k \in {n \in DOMAIN obs[p] : obs[p][n].call = call}}
ConnectReturned(p) == "ok" \in Seen(p, "connect")
\* the secret outcome the invocation saw, as a set of at most one
SecretSeen(p) == {o \in SecretOutcomes : ToString(o) \in Seen(p, "get_secret_value")}

\* C1: whatever the external calls do, lambda_handler ends by returning an
\* envelope with statusCode 200 or 500 and no exception leaves it.
C1_AlwaysReturnsEnvelope ==
  \A p \in Procs :
    /\ pc[p] # "escaped"
    /\ pc[p] = "done" => response[p].statusCode \in {200, 500}

\* C2: an invocation whose connect returned a connection has called close
\* exactly once when it ends, on every exit path, and the connection is
\* closed; an invocation whose connect returned none never calls close.
C2_CloseExactlyOnce ==
  \A p \in Procs :
    /\ calls[p].close <= (IF ConnectReturned(p) THEN 1 ELSE 0)
    /\ Terminal(p) /\ ConnectReturned(p) =>
         /\ calls[p].close = 1
         /\ connection[p] \notin openConns

\* a connection was opened, a statement failed, and the invocation returned
\* 500 with the connection closed once
C2_Witness ==
  \E p \in Procs :
    /\ pc[p] = "done" /\ ConnectReturned(p)
    /\ "Error" \in Seen(p, "delete")
    /\ response[p].statusCode = 500 /\ calls[p].close = 1

\* the secret outcomes get_db_secrets fails on: provider error, binary
\* payload, text that does not evaluate
FailingSecrets ==
  {o \in SecretOutcomes :
     \/ o.kind \in {"ClientError", "SecretBinary"}
     \/ o.kind = "SecretString" /\ o.text.syntax = "invalid"}

\* C3: when get_db_secrets fails, no connection is ever attempted and the
\* invocation returns statusCode 500.
C3_SecretFailureNoConnect ==
  \A p \in Procs :
    (\E o \in FailingSecrets : ToString(o) \in Seen(p, "get_secret_value")) =>
      /\ calls[p].connect = 0
      /\ pc[p] # "escaped"
      /\ pc[p] = "done" => response[p].statusCode = 500

\* each kind of failure has been returned as a 500
C3_Witness ==
  \E p \in Procs :
    /\ pc[p] = "done" /\ response[p].statusCode = 500 /\ calls[p].connect = 0
    /\ \E o \in SecretSeen(p) : o.kind = "SecretBinary"

\* C4: without DB_SECRET_NAME the invocation returns 500 and asks neither the
\* secret store nor the database for anything.
C4_MissingSecretNameImmediate500 ==
  \A p \in Procs :
    "absent" \in Seen(p, "environ") =>
      /\ calls[p].secret = 0 /\ calls[p].connect = 0 /\ dbops[p] = << >>
      /\ pc[p] \in {"log_handler_error", "done"}
      /\ pc[p] = "done" => response[p].statusCode = 500

C4_Witness ==
  \E p \in Procs :
    /\ "absent" \in Seen(p, "environ")
    /\ pc[p] = "done" /\ response[p].statusCode = 500

\* every database step of the invocation went through: connect, the five
\* statements, the two re-reads (whatever they saw), commit and close
AllDbStepsSucceeded(p) ==
  /\ Seen(p, "connect") = {"ok"} /\ Seen(p, "version") = {"row"}
  /\ Seen(p, "create") = {"ok"} /\ Seen(p, "insert") = {"row"}
  /\ Seen(p, "reread1") \in {{"row"}, {"norow"}}
  /\ Seen(p, "delete") = {"ok"}
  /\ Seen(p, "reread2") \in {{"row"}, {"norow"}}
  /\ Seen(p, "commit") = {"ok"} /\ Seen(p, "close") = {"ok"}
\* the identifier the database gave the inserted row
InsertedId(p) ==
  {obs[p][k].id : k \in {n \in DOMAIN obs[p] : obs[p][n].call = "insert"}}

\* C5: with valid credentials and every database step succeeding, the
\* invocation returns 200 with a non-empty version, the inserted record with
\* its identifier, and deleted_record_id equal to that identifier.
C5_SuccessEnvelope ==
  \A p \in Procs :
    Terminal(p) /\ AllDbStepsSucceeded(p) =>
      /\ pc[p] = "done" /\ response[p].statusCode = 200
      /\ response[p].body.version # ""
      /\ response[p].body.test_record_inserted # None
      /\ response[p].body.test_record_inserted[1] \in InsertedId(p)
      /\ response[p].body.deleted_record_id =
           <<response[p].body.test_record_inserted[1]>>

C5_Witness ==
  \E p \in Procs :
    /\ pc[p] = "done" /\ AllDbStepsSucceeded(p)
    /\ response[p].statusCode = 200
    /\ response[p].body.deleted_record_id = <<MaxRecordId>>

\* C6: when connect raises OperationalError the invocation returns 500 with
\* an error that says the connection failed, and the body has no version, no
\* test record and no deleted record id.
C6_ConnectFailureEnvelope ==
  \A p \in Procs :
    Terminal(p) /\ "OperationalError" \in Seen(p, "connect") =>
      /\ pc[p] = "done" /\ response[p].statusCode = 500
      /\ response[p].body.error[1] = "Database connection failed: "
      /\ DOMAIN response[p].body = {"message", "error", "log_stream"}

C6_Witness ==
  \E p \in Procs :
    /\ pc[p] = "done" /\ "OperationalError" \in Seen(p, "connect")
    /\ response[p].statusCode = 500
\* an envelope without its log_stream field
Stripped(resp) ==
  [statusCode |-> resp.statusCode,
   body |-> [k \in DOMAIN resp.body \ {"log_stream"} |-> resp.body[k]]]

\* The envelope as a function of what the configuration, the secret store and
\* the database answered, read off the last answers alone.
ExpectedResponse(o) ==
  LET n == Len(o)
      last == o[n]
      failed(exc, cause) == ResultResponse(FailedResult(ProbeExcept(exc, cause)), None)
  IN CASE last.call = "environ" ->
            ExceptResponse(LambdaFailed(<<"'DB_SECRET_NAME'">>), None)
       [] last.call = "get_secret_value" ->
            LET out == CHOOSE x \in SecretOutcomes : ToString(x) = last.outcome
                got == get_db_secrets(out)
            IN ExceptResponse(LambdaFailed(IF got.ok THEN BuildDbParams(got.value).error
                                           ELSE got.error), None)
       [] last.call = "connect" ->
            failed(last.outcome, Cause("connect", last.outcome))
       [] last.call = "close" /\ last.outcome # "ok" ->
            ExceptResponse(LambdaFailed(<<Cause("close", last.outcome)>>), None)
       [] OTHER ->
            LET prev == o[n - 1]
                id == (CHOOSE e \in {o[k] : k \in 1..n} : e.call = "insert").id
            IN IF prev.call = "commit" /\ prev.outcome = "ok"
               THEN ResultResponse([status |-> "success",
                                    version |-> DbVersionRow[1],
                                    test_record |-> InsertedRow(id),
                                    deleted_record_id |-> <<id>>], None)
               ELSE IF prev.outcome = "norow"
               THEN failed("TypeError", NotSubscriptable)
               ELSE failed(prev.outcome, Cause(prev.call, prev.outcome))

\* C7: the log service has no say in the result: the statusCode and every
\* body field but log_stream are determined by the configuration, secret and
\* database outcomes alone, whatever stream creation and each emission did;
\* with no stream and everything else fine the invocation still returns 200.
C7_LogOutcomesDoNotInfluence ==
  \A p \in Procs :
    pc[p] = "done" =>
      /\ Stripped(response[p]) = Stripped(ExpectedResponse(obs[p]))
      /\ AllDbStepsSucceeded(p) /\ log_stream_name[p] = None =>
           response[p].statusCode = 200

\* stream creation failed, the handle is absent, the probe returned 200
C7_Witness ==
  \E p \in Procs :
    /\ pc[p] = "done" /\ logFault[p] /\ log_stream_name[p] = None
    /\ AllDbStepsSucceeded(p) /\ response[p].statusCode = 200

\* C8: two invocations in a row against a log service that answers every
\* call each return a log_stream that is a stream name.
C8_BothHaveLogStream ==
  Len(returned) >= 2 /\ returned[1].healthy /\ returned[2].healthy =>
    returned[1].log_stream # None /\ returned[2].log_stream # None

WarningLogged(p) ==
  Entry("WARNING", <<"Record still exists after deletion">>) \in locallog[p]

\* C9: a success result comes only after a DELETE of the inserted record's
\* identifier was issued; a row still found by the re-read after the delete is
\* logged as a warning and does not make the probe fail.
C9_DeleteBeforeSuccess ==
  \A p \in Procs :
    /\ result[p].status = "success" =>
         \E k \in DOMAIN dbops[p] :
           /\ dbops[p][k][1] = "delete"
           /\ dbops[p][k][3] = result[p].test_record[1]
           /\ \E j \in 1..(k - 1) : dbops[p][j][1] = "insert"
    /\ "row" \in Seen(p, "reread2") =>
         /\ WarningLogged(p)
         /\ result[p].status = "failed" => Seen(p, "commit") \cap DbFaults # {}
         /\ pc[p] = "done" /\ Seen(p, "commit") = {"ok"} /\ Seen(p, "close") = {"ok"}
              => response[p].statusCode = 200

C9_Witness ==
  \E p \in Procs :
    /\ pc[p] = "done" /\ "row" \in Seen(p, "reread2") /\ WarningLogged(p)
    /\ response[p].statusCode = 200

\* C10 as stated: every success saw the record present after the insert and
\* absent after the delete.
C10_VerifiedRoundTrip ==
  \A p \in Procs :
    pc[p] = "done" /\ response[p].statusCode = 200 =>
      Seen(p, "reread1") = {"row"} /\ Seen(p, "reread2") = {"norow"}

\* C10, amended: every success issued both re-reads for the inserted record's
\* identifier, one between the insert and the delete and one after the
\* delete, and neither raised; what they found is logged and decides nothing.
C10_RereadsIssuedNotEnforced ==
  \A p \in Procs :
    pc[p] = "done" /\ response[p].statusCode = 200 =>
      LET rec == response[p].body.test_record_inserted
          id == rec[1]
          ops == dbops[p]
      IN /\ rec # None
         /\ \E a \in DOMAIN ops :
              /\ ops[a][1] = "insert"
              /\ \E b \in (a + 1)..Len(ops) :
                   /\ ops[b] = <<"select", connection[p], id>>
                   /\ \E c \in (b + 1)..Len(ops) :
                        /\ ops[c] = <<"delete", connection[p], id>>
                        /\ \E d \in (c + 1)..Len(ops) :
                             ops[d] = <<"select", connection[p], id>>
         /\ Seen(p, "reread1") \in {{"row"}, {"norow"}}
         /\ Seen(p, "reread2") \in {{"row"}, {"norow"}}

\* a success whose re-reads found nothing after the insert and the row after
\* the delete
C10_Witness ==
  \E p \in Procs :
    /\ pc[p] = "done" /\ response[p].statusCode = 200
    /\ Seen(p, "reread1") = {"norow"} /\ Seen(p, "reread2") = {"row"}

\* a message is in the local log at a level and, with a handle, was handed to
\* put_log_events for that stream; with no handle nothing was emitted
Mirrored(p, level, message) ==
  /\ Entry(level, message) \in locallog[p]
  /\ IF log_stream_name[p] = None
     THEN emitted[p] = << >>
     ELSE \E k \in DOMAIN emitted[p] :
            emitted[p][k] = LogEvent(log_stream_name[p], level, message)
ProbeRan(p) == calls[p].connect > 0

\* C11: an invocation whose probe ran has its outcome in both log sinks before
\* it returns: the error text of a failed outcome at ERROR, the success
\* message of a success at INFO, each in the local log and handed to the
\* remote stream unless the handle is absent.
C11_OutcomeMirrored ==
  \A p \in Procs :
    /\ result[p].status = "failed" => Mirrored(p, "ERROR", result[p].error)
    /\ pc[p] = "done" /\ ProbeRan(p) =>
         IF response[p].statusCode = 200
         THEN Mirrored(p, "INFO", response[p].body.message)
         ELSE Mirrored(p, "ERROR", response[p].body.error)

\* a failed probe returned 500 with a stream handle, its error in both sinks
C11_Witness ==
  \E p \in Procs :
    /\ pc[p] = "done" /\ ProbeRan(p) /\ result[p].status = "failed"
    /\ response[p].statusCode = 500 /\ log_stream_name[p] # None
    /\ Mirrored(p, "ERROR", result[p].error)

\* the ERROR lines get_db_secrets wrote: the text of the Exception it raised
SecretErrors(p) ==
  {e.message : e \in {x \in locallog[p] :
     /\ x.level = "ERROR" /\ Len(x.message) = 2
     /\ x.message[1] \notin {"Failed to create custom log stream: ",
                             "Failed to write to custom CloudWatch: ",
                             "Database connection failed: ",
                             "Database operation failed: ",
                             "Lambda execution failed: "}}}

\* C12: get_db_secrets fails in two distinguishable ways and returns no
\* record in either: a ClientError gives an access error carrying the store's
\* code; a response without SecretString gives a format error that is neither
\* an access error nor the generic unexpected error.
C12_TwoErrorKinds ==
  \A p \in Procs : \A o \in SecretSeen(p) :
    /\ o.kind = "ClientError" =>
         /\ db_params[p] = NoParams
         /\ \E m \in SecretErrors(p) : m[1] = AccessErrorPrefix(o.code)
    /\ o.kind = "SecretBinary" =>
         /\ db_params[p] = NoParams
         /\ \E m \in SecretErrors(p) :
              /\ m[2] = "Secret binary not supported"
              /\ m[1] # UnexpectedErrorPrefix
              /\ \A c \in {"ResourceNotFoundException", "AccessDeniedException"} :
                   m[1] # AccessErrorPrefix(c)

\* get_db_secrets reached its return statement
SecretReturned(p) ==
  Entry("INFO", <<"Successfully retrieved database secrets">>) \in locallog[p]
\* a text that is a record over exactly the five fields
StructuredRecord(text) == text.syntax = "dict" /\ text.keys = SecretFields

\* C13: get_db_secrets returns a value only for a string payload that is a
\* record over host, port, dbname, username, password; for any other string
\* payload (a value that is no record, a record missing a field, text that is
\* no structured data) get_db_secrets itself fails and returns nothing.
C13_OnlyStructuredRecordReturned ==
  \A p \in Procs : \A o \in SecretSeen(p) :
    /\ SecretReturned(p) => o.kind = "SecretString" /\ StructuredRecord(o.text)
    /\ o.kind = "SecretString" /\ ~StructuredRecord(o.text) =>
         /\ ~SecretReturned(p)
         /\ SecretErrors(p) # {}
         /\ db_params[p] = NoParams

\* the order of the probe's database steps up to the commit
StepOrder ==
  <<"connect", "version", "create", "insert", "select", "delete", "select", "commit">>
\* what the invocation sent to the database, in order
Steps(p) == [k \in DOMAIN dbops[p] |-> dbops[p][k][1]]
IsPrefix(s, t) == Len(s) <= Len(t) /\ \A k \in DOMAIN s : s[k] = t[k]

\* C14: what an invocation sends to the database is a prefix of connect,
\* version, create, insert, re-read, delete, re-read, commit, with close
\* after it and nothing after close; a success result exists only after a
\* commit that succeeded, a failed result only where no commit succeeded.
C14_StepOrder ==
  \A p \in Procs :
    LET steps == Steps(p)
        n == Len(steps)
        closed == n > 0 /\ steps[n] = "close"
        before == IF closed THEN SubSeq(steps, 1, n - 1) ELSE steps
    IN /\ IsPrefix(before, StepOrder)
       /\ Terminal(p) /\ ConnectReturned(p) => closed
       /\ result[p].status = "success" =>
            /\ before = StepOrder
            /\ Seen(p, "commit") = {"ok"}
       /\ result[p].status = "failed" => "ok" \notin Seen(p, "commit")

\* a success that went through every step and closed
C14_Witness ==
  \E p \in Procs :
    /\ pc[p] = "done" /\ result[p].status = "success"
    /\ Steps(p) = StepOrder \o <<"close">>

ProbeCalls ==
  {"connect", "version", "create", "insert", "reread1", "delete", "reread2", "commit"}
\* connect, a statement or the commit raised, or a fetched row that was None
\* has been indexed (the inserted row is indexed after it was logged)
ProbeFaulted(p) ==
  \/ \E c \in ProbeCalls : Seen(p, c) \cap DbFaults # {}
  \/ "norow" \in Seen(p, "version")
  \/ "norow" \in Seen(p, "insert") /\ pc[p] \notin {"log_record", "exec_reread1"}
OperationalFault(p) == \E c \in ProbeCalls : "OperationalError" \in Seen(p, c)
CloseRaised(p) == "Error" \in Seen(p, "close")

\* C15: a fault in connect, in a statement or in the commit never leaves
\* test_db_connection: OperationalError and any other fault both give a
\* result with status failed, a non-empty error text and nothing else, and
\* lambda_handler returns 500 carrying that text.
C15_ProbeFaultsBecomeFailedResult ==
  \A p \in Procs :
    ProbeFaulted(p) /\ ~CloseRaised(p) =>
      /\ pc[p] \in {"log_probe_error", "finally", "map_result", "done"}
      /\ pc[p] # "log_probe_error" =>
           /\ result[p].status = "failed"
           /\ DOMAIN result[p] = {"status", "error"}
           /\ result[p].error # << >>
           /\ result[p].error[1] =
                (IF OperationalFault(p) THEN "Database connection failed: "
                 ELSE "Database operation failed: ")
      /\ pc[p] = "done" =>
           /\ response[p].statusCode = 500
           /\ response[p].body.error = result[p].error

\* a commit that raised a fault other than OperationalError, returned as 500
C15_Witness ==
  \E p \in Procs :
    /\ pc[p] = "done" /\ "Error" \in Seen(p, "commit") /\ ~CloseRaised(p)
    /\ result[p].status = "failed" /\ response[p].statusCode = 500

\* how many times the invocation saw an answer from one kind of call
TimesSeen(p, call) == Cardinality({n \in DOMAIN obs[p] : obs[p][n].call = call})

\* C16: one invocation asks the secret store at most once, tries to connect
\* at most once and tries to create a log stream at most once, whatever
\* fails.
C16_NoRetries ==
  \A p \in Procs :
    /\ calls[p].secret <= 1 /\ TimesSeen(p, "get_secret_value") <= 1
    /\ calls[p].connect <= 1 /\ TimesSeen(p, "connect") <= 1
    /\ calls[p].stream <= 1

\* a connection attempt that failed was not repeated: the invocation returned
\* 500 after one attempt of each kind
C16_Witness ==
  \E p \in Procs :
    /\ pc[p] = "done" /\ response[p].statusCode = 500
    /\ "OperationalError" \in Seen(p, "connect")
    /\ calls[p].secret = 1 /\ calls[p].connect = 1 /\ calls[p].stream = 1

\* the connections an invocation sent a statement, a commit or a close to
UsedConnections(p) ==
  {dbops[p][k][2] : k \in DOMAIN dbops[p]} \ {NoConnection}
AllReturned == \A p \in procs : pc[p] \in {"idle", "done", "escaped"}

\* C17: however two invocations interleave, each sends its statements, its
\* commit and its close only to the connection it opened itself, no
\* connection is used by both, and when all have returned none is open.
C17_ConnectionPerInvocation ==
  /\ \A p \in Procs :
       UsedConnections(p) \subseteq {connection[p]} \ {NoConnection}
  /\ \A p, q \in Procs :
       p # q => UsedConnections(p) \cap UsedConnections(q) = {}
  /\ AllReturned => openConns = {}

\* two invocations hold a connection each at the same time and have both
\* sent statements
C17_Witness ==
  /\ Cardinality(openConns) = 2
  /\ \A p \in Procs :
       /\ connection[p] \in openConns
       /\ \E k \in DOMAIN dbops[p] : dbops[p][k] = <<"insert", connection[p], 0>>

CreatePositions == {"create_log_group", "put_retention_policy", "create_log_stream"}
CreateFailures(p) ==
  {e \in locallog[p] : e.message[1] = "Failed to create custom log stream: "}
\* one step of create_custom_log_stream by environment p; logFault'[p] tells
\* that the call of this step was answered with a fault
CreateStep(p) ==
  pc[p] \in CreatePositions /\ pc'[p] # pc[p] =>
    LET name == StreamName(timestamp[p])
        failed == {e \in locallog'[p] :
                     e.message[1] = "Failed to create custom log stream: "}
    IN /\ pc'[p] \in CreatePositions \cup {"environ"}
       /\ pc[p] = "create_log_group" /\ ~logFault'[p] =>
            pc'[p] = (IF logGroupExists THEN "create_log_stream"
                      ELSE "put_retention_policy")
       /\ pc[p] = "put_retention_policy" /\ ~logFault'[p] =>
            pc'[p] = "create_log_stream"
       /\ pc[p] = "create_log_stream" /\ ~logFault'[p] /\ name \notin logStreams =>
            /\ pc'[p] = "environ" /\ log_stream_name'[p] = name
            /\ name \in logStreams' /\ failed = {}
       /\ logFault'[p] \/ (pc[p] = "create_log_stream" /\ name \in logStreams) =>
            /\ pc'[p] = "environ" /\ log_stream_name'[p] = None
            /\ failed # {} /\ logStreams' = logStreams

\* C18: a log group that already exists does not stop create_custom_log_stream:
\* it goes on to create the stream and returns its name; a failure of group
\* creation, of the retention policy or of stream creation gives an absent
\* handle, and control always reaches the statement after the call.
C18_GroupCreationIdempotent == [][\A p \in Procs : CreateStep(p)]_vars

\* the second invocation found the group made by the first and holds a
\* stream of its own
C18_Witness ==
  \E p \in Procs :
    /\ invocation[p] = 2 /\ Len(returned) = 1 /\ returned[1].log_stream # None
    /\ logGroupExists /\ pc[p] = "environ" /\ CreateFailures(p) = {}
    /\ log_stream_name[p] = StreamName(timestamp[p])
    /\ log_stream_name[p] # returned[1].log_stream

\* the handles given back by the invocations that returned
ReturnedHandles == {returned[k].log_stream : k \in DOMAIN returned} \ {None}
Running(p) == pc[p] \notin {"idle", "done", "escaped"}

\* C19: with a log service that refuses a stream name it already has, no two
\* invocations, one after the other or side by side, hold a handle naming the
\* same stream; an invocation's handle is set before its first remote
\* emission and every emission it makes carries that handle.
C19_HandlesDistinctAndFixed ==
  /\ \A p, q \in Procs :
       p # q /\ log_stream_name[p] # None => log_stream_name[p] # log_stream_name[q]
  /\ \A p \in Procs :
       Running(p) => log_stream_name[p] \notin ReturnedHandles
  /\ \A i, j \in DOMAIN returned :
       i # j /\ returned[i].log_stream # None =>
         returned[i].log_stream # returned[j].log_stream
  /\ \A p \in Procs :
       /\ log_stream_name[p] # None => log_stream_name[p] \in logStreams
       /\ emitted[p] # << >> =>
            /\ pc[p] \notin CreatePositions
            /\ log_stream_name[p] # None
            /\ \A k \in DOMAIN emitted[p] : emitted[p][k].stream = log_stream_name[p]

\* two invocations side by side in the same second: one holds the stream and
\* has emitted to it, the other was refused the name and holds none
C19_Witness ==
  \E p, q \in Procs :
    /\ p # q /\ Running(p) /\ Running(q) /\ timestamp[p] = timestamp[q]
    /\ log_stream_name[p] = StreamName(timestamp[p]) /\ emitted[p] # << >>
    /\ log_stream_name[q] = None
    /\ CreateFailed("ResourceAlreadyExistsException") \in locallog[q]

\* what HeartBeat.lambda_handler may send to the database: no write, no commit
HBReadOnly == {"connect", "version", "current_timestamp", "close"}
HBBothQueriesSucceeded(p) ==
  Seen(p, "version") = {"row"} /\ Seen(p, "current_timestamp") = {"row"}

\* C20: with DB_HOST, DB_NAME, DB_USER and DB_PASSWORD set, the heartbeat
\* always returns an envelope, 200 when both queries succeeded and 500 when
\* connect or a query failed, closes a connection it opened exactly once on
\* every exit path, and sends neither a write nor a commit.
C20_HeartBeatEnvelopeAndClose ==
  \A p \in Procs :
    "present" \in Seen(p, "environ") =>
      /\ \A k \in DOMAIN dbops[p] : dbops[p][k][1] \in HBReadOnly
      /\ calls[p].close <= (IF ConnectReturned(p) THEN 1 ELSE 0)
      /\ pc[p] # "escaped"
      /\ Terminal(p) /\ ConnectReturned(p) =>
           calls[p].close = 1 /\ connection[p] \notin openConns
      /\ pc[p] = "done" =>
           /\ response[p].statusCode =
                (IF HBBothQueriesSucceeded(p) THEN 200 ELSE 500)
           /\ response[p].statusCode = 500 =>
                \/ Seen(p, "connect") \cap DbFaults # {}
                \/ Seen(p, "version") # {"row"}
                \/ Seen(p, "current_timestamp") # {"row"}
====
